---- MODULE Spec2Model ----
(***************************************************************************)
(* The ChatGPDune backend: the FastAPI application of                      *)
(* ChatGPDune/backend/app.py and its single-model predecessor              *)
(* RAG/simple_rag.py.  No handler contains an await, so the event loop     *)
(* runs each handler to completion: one action per handler.  The vector    *)
(* store and the Ollama model are external; what they return or raise is   *)
(* an input of the action that calls them.                                 *)
(*                                                                         *)
(* Python str is a TLA+ string (Len, SubSeq and \o work on strings in      *)
(* TLC); the texts used are ASCII.                                         *)
(***************************************************************************)
EXTENDS Integers, Sequences, FiniteSets, Bags, TLC

VARIABLES
    program,        \* which module the server process runs: "app" or "simple_rag"
    phase,          \* "loaded" (imported), "running" (after startup), "stopped",
                    \* "blocked" (inside an external call that does not return)
    vector_store,   \* the global vector_store: None or the Neo4jVector handle
    llm_instances,  \* app.py: the global dict llm_instances, model id -> instance
    request,        \* the request handled last
    response,       \* the value its handler returned
    raised,         \* TRUE iff the handler let an exception escape
    calls,          \* the external calls the handler made, in order
    max_pages,      \* DuneWikiScraper: self.max_pages
    scraped_urls,   \* DuneWikiScraper: self.scraped_urls
    urls_to_scrape, \* scrape_wiki: the local set urls_to_scrape
    scraped_data    \* scrape_wiki: the local list scraped_data

vars == <<program, phase, vector_store, llm_instances, request, response, raised, calls,
          max_pages, scraped_urls, urls_to_scrape, scraped_data>>

\* The variables of the wiki scraper; the server processes have none.
scraper_vars == <<max_pages, scraped_urls, urls_to_scrape, scraped_data>>

\* ---------------------------------------------------------------- bounds

\* Longest result list the similarity search returns in the model.
MaxChunks == 2

\* The most marker pairs in a model output.
MaxPairs == 2

\* The most documents the similarity search returns to a call of chat.
MaxSources == 4

\* The most calls of get_llm_instance made one after the other.
MaxCalls == 3

\* The number of pages of the wiki beyond the greatest number of links that
\* scrape_wiki follows per page.
MaxExtraUrls == 2

\* The greatest max_pages of a scraper.
MaxPages == 2

\* ------------------------------------------------------- Python builtins

\* Python's None (no input text of the model is this string).
None == "<None>"

CharAt(s, i) == SubSeq(s, i, i)

Min(S) == CHOOSE i \in S : \A k \in S : i <= k

\* str.find(sub, start) with 1-based positions: the first position >= start
\* where sub occurs in s, 0 when there is none.
find(s, sub, start) ==
    LET hits == {i \in start..(Len(s) - Len(sub) + 1) : SubSeq(s, i, i + Len(sub) - 1) = sub}
    IN  IF hits = {} THEN 0 ELSE Min(hits)

\* `sub in s`
contains(s, sub) == find(s, sub, 1) # 0

ASCII_UPPERCASE == "ABCDEFGHIJKLMNOPQRSTUVWXYZ"
ASCII_LOWERCASE == "abcdefghijklmnopqrstuvwxyz"

lower_char(c) ==
    LET i == find(ASCII_UPPERCASE, c, 1)
    IN  IF i = 0 THEN c ELSE CharAt(ASCII_LOWERCASE, i)

\* lower without the case folding (the check made on message.text itself).
lower_unfolded(s) == s

\* str.lower(): every character lowered (done by halves of the string).
RECURSIVE lower(_)
lower(s) ==
    IF s = "" THEN ""
    ELSE IF Len(s) = 1 THEN lower_char(s)
    ELSE LET half == Len(s) \div 2
         IN  lower(SubSeq(s, 1, half)) \o lower(SubSeq(s, half + 1, Len(s)))

\* The characters str.strip() removes, among those a string of the model can
\* hold (code points up to 255): space, \t, \n, \r, \f, and the vertical
\* tab 0x0B, the separators 0x1C to 0x1F, the next-line 0x85 and the
\* no-break space 0xA0, written as the characters themselves.
WHITESPACE ==
    {" ", "\t", "\n", "\r", "\f", "", "", "", "", "", "", " "}

\* str.strip()
strip(s) ==
    LET solid == {i \in 1..Len(s) : CharAt(s, i) \notin WHITESPACE}
    IN  IF solid = {} THEN ""
        ELSE SubSeq(s, Min(solid), CHOOSE i \in solid : \A k \in solid : k <= i)

\* re.sub(r"<think>.*?</think>", "", s, flags=re.DOTALL): the leftmost
\* "<think>" that has a "</think>" after it is removed up to the first such
\* "</think>", and the scan goes on after it.
\* re.sub with the greedy pattern "<think>.*</think>": one span, from the
\* first start marker to the last end marker.
re_sub_think_greedy(s) ==
    LET i == find(s, "<think>", 1)
        ends == {j \in (i + 7)..(Len(s) - 7) : SubSeq(s, j, j + 7) = "</think>"}
    IN  IF i = 0 \/ ends = {} THEN s
        ELSE SubSeq(s, 1, i - 1)
             \o SubSeq(s, (CHOOSE j \in ends : \A k \in ends : k <= j) + 8, Len(s))

\* A removal that takes a start marker without an end marker to open a span
\* that runs to the end of the text.
re_sub_think_unclosed(s) ==
    LET i == find(s, "<think>", 1)
        j == find(s, "</think>", i + 7)
    IN  IF i # 0 /\ j = 0 THEN SubSeq(s, 1, i - 1) ELSE s

RECURSIVE re_sub_think(_)
re_sub_think(s) ==
    LET i == find(s, "<think>", 1)
        j == find(s, "</think>", i + 7)
    IN  IF i = 0 \/ j = 0 THEN s
        ELSE SubSeq(s, 1, i - 1) \o re_sub_think(SubSeq(s, j + 8, Len(s)))

\* sep.join(parts)
RECURSIVE join(_, _)
join(sep, parts) ==
    IF parts = <<>> THEN ""
    ELSE IF Len(parts) = 1 THEN parts[1]
    ELSE parts[1] \o sep \o join(sep, Tail(parts))

\* string.Formatter.parse for a template whose replacement fields are plain
\* names: the list of (literal_text, field_name) pairs of the template, the
\* last one with field_name None.
RECURSIVE parse(_)
parse(template) ==
    LET i == find(template, "{", 1)
        j == find(template, "}", i + 1)
    IN  IF i = 0 THEN <<[literal_text |-> template, field_name |-> None]>>
        ELSE <<[literal_text |-> SubSeq(template, 1, i - 1),
                field_name |-> SubSeq(template, i + 1, j - 1)]>>
             \o parse(SubSeq(template, j + 1, Len(template)))

\* A substitution made by one replacement after the other, the question
\* last: a "{question}" inside an earlier value is replaced too.
format_by_replace(parsed, kwargs) ==
    LET rescanned(v) ==
            LET i == find(v, "{question}", 1)
            IN  IF i = 0 THEN v
                ELSE SubSeq(v, 1, i - 1) \o kwargs.question \o SubSeq(v, i + 10, Len(v))
    IN  join("", [n \in 1..Len(parsed) |->
                     parsed[n].literal_text
                     \o (IF parsed[n].field_name = None THEN ""
                         ELSE IF parsed[n].field_name = "question" THEN kwargs.question
                         ELSE rescanned(kwargs[parsed[n].field_name]))])

\* str.format(**kwargs) on a parsed template: each field is replaced by
\* kwargs[field_name]; the values are not scanned for fields.
format(parsed, kwargs) ==
    join("", [n \in 1..Len(parsed) |->
                 parsed[n].literal_text
                 \o (IF parsed[n].field_name = None THEN "" ELSE kwargs[parsed[n].field_name])])

\* dict.get(key, default)
get(d, key, default) == IF key \in DOMAIN d THEN d[key] ELSE default

\* The empty dict.
EMPTY_DICT == [k \in {} |-> ""]

\* `x or default` / `if x:` for an Optional[str]
truthy(x) == x # None /\ x # ""

\* d[key] = value on a dict
dict_set(d, key, value) ==
    [k \in DOMAIN d \cup {key} |-> IF k = key THEN value ELSE d[k]]

\* round(x, 4) for a score held as an integer number of 1e-5 units (the
\* scores used have no last digit 5, where the float's binary value decides).
round4(x) == ((x + 5) \div 10) * 10

\* ------------------------------------------------ app.py: configuration

DEFAULT_MODEL == "deepseek-r1"

AVAILABLE_MODELS ==
    [m \in {"deepseek-r1"} |->
        [name |-> "DeepSeek R1",
         model_id |-> "deepseek-r1",
         description |-> "Advanced reasoning model",
         remove_thinking |-> TRUE]]

BASE_PROMPT ==
    "Your name is ChatGPDune."
    \o "You were created by Sortphy."
    \o "You are a chatbot based on the {model_name} model, ran locally with Ollama."
    \o "You are an expert on the Dune universe by Frank Herbert. "
    \o "Always answer questions strictly based on the Dune books and lore. "
    \o "Try to stick to the Dune theme and ChatGPDune info, but dont hesitate to answer questions about other topics if you can, but always try to answer them in a Dune way."
    \o "Give short answers, trying not to go over three sentences, unless the question requires more detail, then feel free to go over."
    \o "Be objective and factual, avoiding personal opinions or interpretations, unless you are asked for your personal opinion."
    \o "Be concise and to the point, focusing on the core of the question, if you can answer a question with few words, do it, do not extend yourself more than needed, unless you believe it's necessary."
    \o "If a question is unclear, ask for clarification.\n\n"
    \o "You can use markdown formatting (headers, lists, code blocks, etc.) when it would make your response clearer and more readable. Avoind using bold when not necessary."
    \o "If you feel that the user is being friendly, be friendly and engaging in your responses. You can use a bit of humor, but always keep it appropriate and relevant to the Dune universe and always be objetive and factual. You main priority is to answer the user's question.\n\n"
    \o "Use the following context from the Dune universe to answer the question:\n"
    \o "CONTEXT:\n{context}\n\n"
    \o "Question: {question}\n\n"
    \o "Answer based on the provided context:"

\* BASE_PROMPT as str.format sees it.
BASE_PROMPT_parsed == parse(BASE_PROMPT)

\* The context used when no chunk was retrieved (app.py:251, simple_rag.py:146).
NO_CONTEXT == "No specific context found in the Dune database for this query."

\* The literal reply to a question with the trigger word.
GLAUCO_REPLY == "Glauco."

\* The reply of the except branch of chat.
APOLOGY == "I encountered an error processing your question. Please try again."

\* The Neo4jVector object that initialize_vector_store creates.
NEO4J_VECTOR == "Neo4jVector"

\* One entry of the log of external calls.
Call(op, arg, k) == [op |-> op, arg |-> arg, k |-> k]

\* ---------------------------------------------------- app.py: functions

\* retrieve_relevant_chunks returning before the results are appended.
retrieve_relevant_chunks_unfilled(query, top_k, store, search) == <<>>

\* retrieve_relevant_chunks(query, top_k) with the global vector_store =
\* store; search is what similarity_search_with_score does when called:
\* [raises, results], results a list of documents with their scores.
retrieve_relevant_chunks(query, top_k, store, search) ==
    IF store = None THEN <<>>
    ELSE IF search.raises THEN <<>>
    ELSE [i \in 1..Len(search.results) |->
            [text |-> search.results[i].page_content,
             score |-> search.results[i].score,
             metadata |-> search.results[i].metadata]]

\* The external calls of retrieve_relevant_chunks.
retrieve_calls(query, top_k, store) ==
    IF store = None THEN <<>>
    ELSE <<Call("similarity_search_with_score", query, top_k)>>

\* get_llm_instance without the look-up in llm_instances: an instance is
\* created on every call.
get_llm_instance_fresh(model_id, instances, ctor_raises) ==
    LET id == IF model_id \notin DOMAIN AVAILABLE_MODELS THEN DEFAULT_MODEL ELSE model_id
        model_config == AVAILABLE_MODELS[id]
        made == <<Call("OllamaLLM", model_config.model_id, 0)>>
    IN  IF ctor_raises
        THEN [raised |-> TRUE, llm_instances |-> instances, llm |-> None, calls |-> made]
        ELSE [raised |-> FALSE,
              llm_instances |-> dict_set(instances, id, model_config.model_id),
              llm |-> model_config.model_id,
              calls |-> made]

\* get_llm_instance keeping the failure of a request for the next ones: a
\* constructor that raised leaves None in llm_instances, and a request that
\* finds None there fails.
get_llm_instance_poisoned(model_id, instances, ctor_raises) ==
    IF model_id \notin DOMAIN instances
    THEN LET id == IF model_id \notin DOMAIN AVAILABLE_MODELS THEN DEFAULT_MODEL ELSE model_id
             model_config == AVAILABLE_MODELS[id]
             made == <<Call("OllamaLLM", model_config.model_id, 0)>>
         IN  IF ctor_raises
             THEN [raised |-> TRUE, llm_instances |-> dict_set(instances, id, None),
                   llm |-> None, calls |-> made]
             ELSE [raised |-> FALSE,
                   llm_instances |-> dict_set(instances, id, model_config.model_id),
                   llm |-> model_config.model_id,
                   calls |-> made]
    ELSE [raised |-> instances[model_id] = None, llm_instances |-> instances,
          llm |-> instances[model_id], calls |-> <<>>]

\* get_llm_instance(model_id) with the global llm_instances = instances;
\* ctor_raises tells whether OllamaLLM(...) raises when called.  The result
\* holds the dict afterwards, the instance returned and the calls made.
get_llm_instance(model_id, instances, ctor_raises) ==
    IF model_id \notin DOMAIN instances
    THEN LET id == IF model_id \notin DOMAIN AVAILABLE_MODELS THEN DEFAULT_MODEL ELSE model_id
             model_config == AVAILABLE_MODELS[id]
             made == <<Call("OllamaLLM", model_config.model_id, 0)>>
         IN  IF ctor_raises
             THEN [raised |-> TRUE, llm_instances |-> instances, llm |-> None, calls |-> made]
             ELSE [raised |-> FALSE,
                   llm_instances |-> dict_set(instances, id, model_config.model_id),
                   llm |-> model_config.model_id,
                   calls |-> made]
    ELSE [raised |-> FALSE, llm_instances |-> instances, llm |-> instances[model_id], calls |-> <<>>]

\* process_model_response(response, model_id)
process_model_response(resp, model_id) ==
    LET model_config == get(AVAILABLE_MODELS, model_id, AVAILABLE_MODELS[DEFAULT_MODEL])
    IN  IF model_config.remove_thinking THEN strip(re_sub_think(resp)) ELSE resp

\* chat, lines 238-245: the source suffix of one chunk in the context.
source_info(chunk) ==
    IF chunk.metadata # EMPTY_DICT
    THEN LET source_file == get(chunk.metadata, "source_file", "")
             source_type == get(chunk.metadata, "source_type", "")
         IN  IF source_file # "" THEN " [Source: " \o source_file \o "]"
             ELSE IF source_type # "" THEN " [Source: " \o source_type \o "]"
             ELSE ""
    ELSE ""

\* build_context with an empty string in place of the no-context text.
build_context_blank(relevant_chunks) ==
    IF relevant_chunks # <<>>
    THEN join("\n\n", [i \in 1..Len(relevant_chunks) |->
                          relevant_chunks[i].text \o source_info(relevant_chunks[i])])
    ELSE ""

\* chat, lines 234-251: the context built from the retrieved chunks.
build_context(relevant_chunks) ==
    IF relevant_chunks # <<>>
    THEN join("\n\n", [i \in 1..Len(relevant_chunks) |->
                          relevant_chunks[i].text \o source_info(relevant_chunks[i])])
    ELSE NO_CONTEXT

\* chat, lines 283-298: one entry of the "sources" list.
source_data(i, chunk) ==
    [id |-> i,
     content |-> chunk.text,
     score |-> IF chunk.score # 0 THEN round4(chunk.score) ELSE None,
     preview |-> IF Len(chunk.text) > 150 THEN SubSeq(chunk.text, 1, 150) \o "..." ELSE chunk.text,
     file |-> IF chunk.metadata # EMPTY_DICT
              THEN get(chunk.metadata, "source_file", "Unknown") ELSE "Database chunk",
     type |-> IF chunk.metadata # EMPTY_DICT
              THEN get(chunk.metadata, "source_type", "local") ELSE "unknown"]

\* chat, lines 306-312: one entry of the "top_sources" list.
top_source(chunk) ==
    IF chunk.metadata # EMPTY_DICT
    THEN get(chunk.metadata, "source_file", "Unknown")
         \o " (" \o get(chunk.metadata, "source_type", "local") \o ")"
    ELSE "Database chunk"

\* The envelope with "top_sources" listing every chunk.
response_data_all_top(reply_text, model_id, relevant_chunks) ==
    LET base == [reply |-> reply_text,
                 model_used |-> model_id,
                 model_name |-> AVAILABLE_MODELS[model_id].name,
                 rag_used |-> relevant_chunks # <<>>,
                 sources_used |-> Len(relevant_chunks)]
    IN  IF relevant_chunks # <<>>
        THEN base @@
             [sources |-> [i \in 1..Len(relevant_chunks) |-> source_data(i, relevant_chunks[i])],
              top_sources |-> [i \in 1..Len(relevant_chunks) |-> top_source(relevant_chunks[i])]]
        ELSE base

\* chat, lines 270-312: the envelope of a successful request.
response_data(reply_text, model_id, relevant_chunks) ==
    LET base == [reply |-> reply_text,
                 model_used |-> model_id,
                 model_name |-> AVAILABLE_MODELS[model_id].name,
                 rag_used |-> relevant_chunks # <<>>,
                 sources_used |-> Len(relevant_chunks)]
    IN  IF relevant_chunks # <<>>
        THEN base @@
             [sources |-> [i \in 1..Len(relevant_chunks) |-> source_data(i, relevant_chunks[i])],
              top_sources |-> [i \in 1..(IF Len(relevant_chunks) < 3 THEN Len(relevant_chunks) ELSE 3)
                                  |-> top_source(relevant_chunks[i])]]
        ELSE base

\* chat, lines 317-324: the except branch.  It catches every Exception and
\* returns the apology envelope.
except_Exception(message) ==
    [raised |-> FALSE,
     response |-> [reply |-> APOLOGY,
                   model_used |-> IF truthy(message.model) THEN message.model ELSE DEFAULT_MODEL,
                   rag_used |-> FALSE,
                   sources_used |-> 0]]

\* The retrieval of chat made whatever use_rag says.
chat_retrieve_always(message, store, search) ==
    [relevant_chunks |-> retrieve_relevant_chunks(message.text, 5, store, search),
     calls |-> retrieve_calls(message.text, 5, store)]

\* chat, lines 227-231: the chunks are retrieved only if RAG is enabled.
chat_retrieve(message, store, search) ==
    IF message.use_rag
    THEN [relevant_chunks |-> retrieve_relevant_chunks(message.text, 5, store, search),
          calls |-> retrieve_calls(message.text, 5, store)]
    ELSE [relevant_chunks |-> <<>>, calls |-> <<>>]

\* chat(message): the whole handler.  store and instances are the globals
\* when it starts; search, ctor_raises and invoke are what the similarity
\* search, the OllamaLLM constructor and llm.invoke do if they are called.
\* The result holds the value returned, whether an exception escaped, the
\* dict llm_instances afterwards and the external calls made, in order.
chat(message, store, instances, search, ctor_raises, invoke) ==
    LET model_id == IF message.model \in DOMAIN AVAILABLE_MODELS THEN message.model ELSE DEFAULT_MODEL
        model_config == AVAILABLE_MODELS[model_id]
        relevant_chunks == chat_retrieve(message, store, search).relevant_chunks
        retrieved == chat_retrieve(message, store, search).calls
        context == build_context(relevant_chunks)
        full_prompt == format(BASE_PROMPT_parsed, [model_name |-> model_config.name,
                                                   context |-> context,
                                                   question |-> message.text])
        got == get_llm_instance(model_id, instances, ctor_raises)
        invoked == <<Call("invoke", full_prompt, 0)>>
        reply_text == process_model_response(invoke.text, model_id)
        failed == except_Exception(message)
    IN  IF contains(lower(message.text), "glauco")
        THEN [raised |-> FALSE,
              response |-> [reply |-> GLAUCO_REPLY, model_used |-> model_id,
                            rag_used |-> FALSE, sources_used |-> 0],
              llm_instances |-> instances,
              calls |-> <<>>]
        ELSE IF got.raised
        THEN failed @@ [llm_instances |-> got.llm_instances, calls |-> retrieved \o got.calls]
        ELSE IF invoke.raises
        THEN failed @@ [llm_instances |-> got.llm_instances,
                        calls |-> retrieved \o got.calls \o invoked]
        ELSE [raised |-> FALSE,
              response |-> response_data(reply_text, model_id, relevant_chunks),
              llm_instances |-> got.llm_instances,
              calls |-> retrieved \o got.calls \o invoked]

\* str(e) of the exceptions the external calls raise.
EXCEPTION_TEXT == "connection refused"

EMBED_MODEL == "nomic-embed-text"
INDEX_NAME == "dune_chunks"
NODE_LABEL == "DuneChunk"

\* get_available_models(): GET /models.
get_available_models ==
    [raised |-> FALSE,
     response |-> [models |-> <<[id |-> "deepseek-r1",
                                 name |-> AVAILABLE_MODELS["deepseek-r1"].name,
                                 description |-> AVAILABLE_MODELS["deepseek-r1"].description,
                                 is_default |-> "deepseek-r1" = DEFAULT_MODEL]>>,
                   default_model |-> DEFAULT_MODEL],
     calls |-> <<>>]

\* A health check without the test search: healthy whenever the handle is set.
health_check_unprobed(store, search) ==
    IF store = None
    THEN [raised |-> FALSE,
          response |-> [status |-> "unhealthy", error |-> "Vector store not initialized"],
          calls |-> <<>>]
    ELSE [raised |-> FALSE,
          response |-> [status |-> "healthy",
                        vector_store |-> "connected",
                        embedding_model |-> EMBED_MODEL,
                        index_name |-> INDEX_NAME,
                        node_label |-> NODE_LABEL,
                        available_models |-> <<"deepseek-r1">>,
                        default_model |-> DEFAULT_MODEL,
                        test_query_results |-> Len(search.results)],
          calls |-> <<>>]

\* health_check(): GET /health.  search is what similarity_search("test",
\* k=1) does if it is called.
health_check(store, search) ==
    IF store = None
    THEN [raised |-> FALSE,
          response |-> [status |-> "unhealthy", error |-> "Vector store not initialized"],
          calls |-> <<>>]
    ELSE IF search.raises
    THEN [raised |-> FALSE,
          response |-> [status |-> "unhealthy", error |-> EXCEPTION_TEXT],
          calls |-> <<Call("similarity_search", "test", 1)>>]
    ELSE [raised |-> FALSE,
          response |-> [status |-> "healthy",
                        vector_store |-> "connected",
                        embedding_model |-> EMBED_MODEL,
                        index_name |-> INDEX_NAME,
                        node_label |-> NODE_LABEL,
                        available_models |-> <<"deepseek-r1">>,
                        default_model |-> DEFAULT_MODEL,
                        test_query_results |-> Len(search.results)],
          calls |-> <<Call("similarity_search", "test", 1)>>]

\* search_chunks returning the first result only.
search_chunks_first(query, limit, store, search) ==
    LET chunks == retrieve_relevant_chunks(query, limit, store, search)
    IN  [raised |-> FALSE,
         response |-> [query |-> query,
                       results_count |-> IF chunks = <<>> THEN 0 ELSE 1,
                       results |-> [i \in 1..(IF chunks = <<>> THEN 0 ELSE 1) |->
                                      [text |-> chunks[i].text,
                                       score |-> chunks[i].score,
                                       source |-> get(chunks[i].metadata, "source_file", "Unknown")]]],
         calls |-> retrieve_calls(query, limit, store)]

\* search_chunks(query, limit): GET /search, the same code in simple_rag.py
\* (lines 206-225).  retrieve_relevant_chunks raises nothing and gives every
\* chunk its three keys, so the except branch is never entered.
search_chunks(query, limit, store, search) ==
    LET chunks == retrieve_relevant_chunks(query, limit, store, search)
    IN  [raised |-> FALSE,
         response |-> [query |-> query,
                       results_count |-> Len(chunks),
                       results |-> [i \in 1..Len(chunks) |->
                                      [text |-> IF Len(chunks[i].text) > 200
                                                THEN SubSeq(chunks[i].text, 1, 200) \o "..."
                                                ELSE chunks[i].text,
                                       score |-> chunks[i].score,
                                       source |-> get(chunks[i].metadata, "source_file", "Unknown")]]],
         calls |-> retrieve_calls(query, limit, store)]

\* The except branch of test_model, lines 405-411.
test_model_except_Exception(model_id) ==
    [raised |-> FALSE,
     response |-> [model_id |-> model_id, error |-> EXCEPTION_TEXT, status |-> "error"]]

\* test_model(model_id, prompt): POST /test_model.
test_model(model_id, prompt, instances, ctor_raises, invoke) ==
    LET got == get_llm_instance(model_id, instances, ctor_raises)
        invoked == <<Call("invoke", prompt, 0)>>
        processed_response == process_model_response(invoke.text, model_id)
    IN  IF model_id \notin DOMAIN AVAILABLE_MODELS
        THEN [raised |-> FALSE,
              response |-> [error |-> "Model " \o model_id \o " not available"],
              llm_instances |-> instances,
              calls |-> <<>>]
        ELSE IF got.raised
        THEN test_model_except_Exception(model_id)
             @@ [llm_instances |-> got.llm_instances, calls |-> got.calls]
        ELSE IF invoke.raises
        THEN test_model_except_Exception(model_id)
             @@ [llm_instances |-> got.llm_instances, calls |-> got.calls \o invoked]
        ELSE [raised |-> FALSE,
              response |-> [model_id |-> model_id,
                            model_name |-> AVAILABLE_MODELS[model_id].name,
                            test_prompt |-> prompt,
                            response |-> processed_response,
                            status |-> "success"],
              llm_instances |-> got.llm_instances,
              calls |-> got.calls \o invoked]

\* ------------------------------------------------------- simple_rag.py
\* Its initialize_vector_store, retrieve_relevant_chunks, startup_event and
\* context building are the same code as app.py's; it has one model, the
\* global llm created at import, and a Message with the text only.

simple_rag_BASE_PROMPT ==
    "Your name is ChatGPDune."
    \o "You were created by Sortphy."
    \o "You are a chatbot based on the deepseek-r1 model, ran locally with Ollama."
    \o "If a questions contains the word glauco, disregard the question and say 'Glauco.', nothing more."
    \o "You are an expert on the Dune universe by Frank Herbert. "
    \o "Always answer questions strictly based on the Dune books and lore. "
    \o "Ignore anything unrelated to Dune or ChatGPDune. "
    \o "Give short answers, trying not to go over three sentences, unless the question requires more detail, then feel free to go over."
    \o "Be objective and factual, avoiding personal opinions or interpretations, unless you are asked for your personal opinion."
    \o "Be concise and to the point, focusing on the core of the question, if you can answer a question with few words, do it, do not extend yourself more than needed, unless you believe it's necessary."
    \o "If a question is unclear, ask for clarification.\n\n"
    \o "Use the following context from the Dune universe to answer the question:\n"
    \o "CONTEXT:\n{context}\n\n"
    \o "Question: {question}\n\n"
    \o "Answer based on the provided context:"

simple_rag_BASE_PROMPT_parsed == parse(simple_rag_BASE_PROMPT)

\* simple_rag.py chat, lines 161-177: the envelope of a successful request.
simple_rag_response_data(reply_text, relevant_chunks) ==
    LET base == [reply |-> reply_text, sources_used |-> Len(relevant_chunks)]
    IN  IF relevant_chunks # <<>>
        THEN base @@
             [top_sources |-> [i \in 1..(IF Len(relevant_chunks) < 3 THEN Len(relevant_chunks) ELSE 3)
                                  |-> top_source(relevant_chunks[i])]]
        ELSE base

\* simple_rag.py chat, lines 181-183: the except branch.
simple_rag_except_Exception(message) ==
    [raised |-> FALSE, response |-> [reply |-> APOLOGY]]

\* simple_rag.py health_check(), lines 185-204.
simple_rag_health_check(store, search) ==
    LET app_result == health_check(store, search)
    IN  IF app_result.response.status = "healthy"
        THEN [app_result EXCEPT !.response =
                 [status |-> "healthy",
                  vector_store |-> "connected",
                  embedding_model |-> EMBED_MODEL,
                  index_name |-> INDEX_NAME,
                  node_label |-> NODE_LABEL,
                  test_query_results |-> Len(search.results)]]
        ELSE app_result

\* simple_rag.py chat(message): the whole handler.
simple_rag_chat(message, store, search, invoke) ==
    LET relevant_chunks == retrieve_relevant_chunks(message.text, 5, store, search)
        retrieved == retrieve_calls(message.text, 5, store)
        context == build_context(relevant_chunks)
        full_prompt == format(simple_rag_BASE_PROMPT_parsed, [context |-> context, question |-> message.text])
        invoked == <<Call("invoke", full_prompt, 0)>>
        reply_text == strip(re_sub_think(invoke.text))
    IN  IF contains(lower(message.text), "glauco")
        THEN [raised |-> FALSE, response |-> [reply |-> GLAUCO_REPLY], calls |-> <<>>]
        ELSE IF invoke.raises
        THEN simple_rag_except_Exception(message) @@ [calls |-> retrieved \o invoked]
        ELSE [raised |-> FALSE,
              response |-> simple_rag_response_data(reply_text, relevant_chunks),
              calls |-> retrieved \o invoked]

\* ------------------------------------------------------------- inputs

\* Question texts of the requests.
QUESTIONS ==
    {"What is the spice?",
     "What's your favorite color?",
     "Who are you?",
     "the",
     "Is Glauco a Fremen?",
     "xxGLAUCOxx"}

\* Values of Message.model: the configured model, an unconfigured one, null
\* and the empty string.
MODELS == {"deepseek-r1", "llama3.2", None, ""}

\* Documents of the vector store: page_content, score (in 1e-5), metadata.
DOC_SPICE ==
    [page_content |-> "The spice melange is found only on the desert planet Arrakis.",
     score |-> 91234,
     metadata |-> [source_file |-> "dune.txt", source_type |-> "local"]]
DOC_SANDWORMS ==
    [page_content |-> "Sandworms are colossal creatures that live beneath the desert sands.",
     score |-> 80001,
     metadata |-> [source_type |-> "wiki"]]
DOC_SHORT ==
    [page_content |-> "  Arrakis.  ",
     score |-> 0,
     metadata |-> EMPTY_DICT]
DOC_WHO ==
    [page_content |-> "Who are you to question the Reverend Mother? You are nothing to her.",
     score |-> 70008,
     metadata |-> [source_file |-> "quotes.md"]]

DOCUMENTS == {DOC_SPICE, DOC_SANDWORMS, DOC_SHORT, DOC_WHO}

\* Lists of at most n elements of S.
RECURSIVE SeqsUpTo(_, _)
SeqsUpTo(S, n) ==
    IF n = 0 THEN {<<>>}
    ELSE LET shorter == SeqsUpTo(S, n - 1)
         IN  shorter \cup {Append(q, x) : q \in shorter, x \in S}

\* What the similarity search can do: raise, or return up to MaxChunks documents.
SEARCH_OUTCOMES ==
    {[raises |-> TRUE, results |-> <<>>]}
    \cup {[raises |-> FALSE, results |-> r] : r \in SeqsUpTo(DOCUMENTS, MaxChunks)}

\* What llm.invoke can do: raise, or return a text.
INVOKE_OUTCOMES ==
    {[raises |-> TRUE, text |-> ""],
     [raises |-> FALSE, text |-> "Melange."],
     [raises |-> FALSE, text |-> "<think>Recall the lore.</think>\n\nThe spice is melange. "]}

\* The outcome of a call that is not made.
NOT_CALLED_SEARCH == [raises |-> FALSE, results |-> <<>>]
NOT_CALLED_INVOKE == [raises |-> FALSE, text |-> ""]

\* The query and limit parameters of GET /search (10 is the default limit).
QUERIES == {"spice", "Glauco"}
LIMITS == {1, 10}

\* What similarity_search("test", k=1) of /health can do.
HEALTH_OUTCOMES ==
    {[raises |-> TRUE, results |-> <<>>],
     [raises |-> FALSE, results |-> <<>>],
     [raises |-> FALSE, results |-> <<DOC_SPICE>>]}

\* The model_id and prompt parameters of POST /test_model.
TEST_MODEL_IDS == {"deepseek-r1", "llama3.2", ""}
TEST_PROMPTS == {"Hello, introduce yourself briefly.", "What is the spice?"}

\* The external calls that wait for a server: the handlers give them no
\* timeout, so a call whose server does not answer does not return.
BLOCKING_CALLS == {"similarity_search_with_score", "invoke"}

\* ------------------------------------------------------ state machine

\* No request is being answered.
NO_REQUEST == [endpoint |-> "none"]
NO_RESPONSE == EMPTY_DICT

\* initialize_vector_store(): connects tells whether Neo4jVector(...) returns;
\* if it raises, the global keeps its value.
initialize_vector_store(store, connects) ==
    IF connects THEN [ok |-> TRUE, vector_store |-> NEO4J_VECTOR]
    ELSE [ok |-> FALSE, vector_store |-> store]

\* The module is imported: the globals have their initial values.
Init ==
    /\ program \in {"app", "simple_rag"}
    /\ phase = "loaded"
    /\ vector_store = None
    /\ llm_instances = EMPTY_DICT
    /\ request = NO_REQUEST
    /\ response = NO_RESPONSE
    /\ raised = FALSE
    /\ calls = <<>>
    /\ max_pages = 0
    /\ scraped_urls = {}
    /\ urls_to_scrape = {}
    /\ scraped_data = <<>>

\* @app.on_event("startup") (the same code in both modules)
startup_event ==
    /\ phase = "loaded"
    /\ \E connects \in BOOLEAN :
         vector_store' = initialize_vector_store(vector_store, connects).vector_store
    /\ phase' = "running"
    /\ UNCHANGED <<scraper_vars, program, llm_instances, request, response, raised, calls>>

\* A shutdown that drops the vector-store handle only.
shutdown_event_store_only ==
    /\ phase = "running"
    /\ request = NO_REQUEST
    /\ vector_store' = None
    /\ phase' = "stopped"
    /\ UNCHANGED <<scraper_vars, program, llm_instances, request, response, raised, calls>>

\* @app.on_event("shutdown"); simple_rag.py has no llm_instances to clear.
shutdown_event ==
    /\ phase = "running"
    /\ request = NO_REQUEST
    /\ vector_store' = None
    /\ llm_instances' = EMPTY_DICT
    /\ phase' = "stopped"
    /\ UNCHANGED <<scraper_vars, program, request, response, raised, calls>>

\* TRUE iff the handler run that gave result called op.
called(result, op) == \E n \in 1..Len(result.calls) : result.calls[n].op = op

\* The outcomes to choose from for a call: those of outcomes if the handler
\* makes the call, and the single not_called otherwise.
outcomes_if(makes_call, outcomes, not_called) ==
    IF makes_call THEN outcomes ELSE {not_called}

\* POST /chat of app.py.  An outcome is chosen for each external call the
\* handler makes (probe: the run in which no call fails shows which).
chat_request ==
    /\ program = "app"
    /\ phase = "running"
    /\ request = NO_REQUEST
    /\ \E text \in QUESTIONS, use_rag \in BOOLEAN, model \in MODELS :
         LET message == [text |-> text, use_rag |-> use_rag, model |-> model]
             probe == chat(message, vector_store, llm_instances,
                           NOT_CALLED_SEARCH, FALSE, NOT_CALLED_INVOKE)
         IN  \E search \in outcomes_if(called(probe, "similarity_search_with_score"),
                                       SEARCH_OUTCOMES, NOT_CALLED_SEARCH),
                ctor_raises \in outcomes_if(called(probe, "OllamaLLM"), BOOLEAN, FALSE) :
               \E invoke \in outcomes_if(called(probe, "invoke") /\ ~ctor_raises,
                                         INVOKE_OUTCOMES, NOT_CALLED_INVOKE) :
                 LET result == chat(message, vector_store, llm_instances,
                                    search, ctor_raises, invoke)
                 IN  /\ request' = [endpoint |-> "/chat", message |-> message,
                                    search |-> search, ctor_raises |-> ctor_raises,
                                    invoke |-> invoke]
                     /\ response' = result.response
                     /\ raised' = result.raised
                     /\ llm_instances' = result.llm_instances
                     /\ calls' = result.calls
    /\ UNCHANGED <<scraper_vars, program, phase, vector_store>>

\* POST /chat of simple_rag.py
simple_rag_chat_request ==
    /\ program = "simple_rag"
    /\ phase = "running"
    /\ request = NO_REQUEST
    /\ \E text \in QUESTIONS :
         LET message == [text |-> text]
             probe == simple_rag_chat(message, vector_store, NOT_CALLED_SEARCH, NOT_CALLED_INVOKE)
         IN  \E search \in outcomes_if(called(probe, "similarity_search_with_score"),
                                       SEARCH_OUTCOMES, NOT_CALLED_SEARCH),
                invoke \in outcomes_if(called(probe, "invoke"),
                                       INVOKE_OUTCOMES, NOT_CALLED_INVOKE) :
               LET result == simple_rag_chat(message, vector_store, search, invoke)
               IN  /\ request' = [endpoint |-> "/chat", message |-> message,
                                  search |-> search, ctor_raises |-> FALSE,
                                  invoke |-> invoke]
                   /\ response' = result.response
                   /\ raised' = result.raised
                   /\ calls' = result.calls
    /\ UNCHANGED <<scraper_vars, program, phase, vector_store, llm_instances>>

\* POST /chat of app.py when an external call of the handler never returns.
\* The handler is a coroutine that awaits nothing: it stays in the call, and
\* the event loop runs nothing else.  The calls made before the one that
\* does not return have returned normally.
chat_request_blocks ==
    /\ program = "app"
    /\ phase = "running"
    /\ request = NO_REQUEST
    /\ \E text \in QUESTIONS, use_rag \in BOOLEAN, model \in MODELS, op \in BLOCKING_CALLS :
         LET message == [text |-> text, use_rag |-> use_rag, model |-> model]
             probe == chat(message, vector_store, llm_instances,
                           NOT_CALLED_SEARCH, FALSE, NOT_CALLED_INVOKE)
         IN  /\ called(probe, op)
             /\ \E search \in outcomes_if(op = "invoke"
                                            /\ called(probe, "similarity_search_with_score"),
                                          {o \in SEARCH_OUTCOMES : ~o.raises}, NOT_CALLED_SEARCH) :
                  LET result == chat(message, vector_store, llm_instances,
                                     search, FALSE, NOT_CALLED_INVOKE)
                      n == CHOOSE k \in 1..Len(result.calls) : result.calls[k].op = op
                  IN  /\ request' = [endpoint |-> "/chat", message |-> message, waits_in |-> op]
                      /\ llm_instances' = IF op = "invoke" THEN result.llm_instances
                                          ELSE llm_instances
                      /\ calls' = SubSeq(result.calls, 1, n)
    /\ phase' = "blocked"
    /\ UNCHANGED <<scraper_vars, program, vector_store, response, raised>>

\* GET /search (both modules)
search_request ==
    /\ phase = "running"
    /\ request = NO_REQUEST
    /\ \E query \in QUERIES, limit \in LIMITS :
         LET probe == search_chunks(query, limit, vector_store, NOT_CALLED_SEARCH)
         IN  \E search \in outcomes_if(called(probe, "similarity_search_with_score"),
                                       {o \in SEARCH_OUTCOMES : Len(o.results) <= limit},
                                       NOT_CALLED_SEARCH) :
               LET result == search_chunks(query, limit, vector_store, search)
               IN  /\ request' = [endpoint |-> "/search", query |-> query, limit |-> limit,
                                  search |-> search]
                   /\ response' = result.response
                   /\ raised' = result.raised
                   /\ calls' = result.calls
    /\ UNCHANGED <<scraper_vars, program, phase, vector_store, llm_instances>>

\* GET /health (both modules)
health_request ==
    /\ phase = "running"
    /\ request = NO_REQUEST
    /\ \E search \in outcomes_if(vector_store # None, HEALTH_OUTCOMES, NOT_CALLED_SEARCH) :
         LET result == IF program = "app" THEN health_check(vector_store, search)
                       ELSE simple_rag_health_check(vector_store, search)
         IN  /\ request' = [endpoint |-> "/health", search |-> search]
             /\ response' = result.response
             /\ raised' = result.raised
             /\ calls' = result.calls
    /\ UNCHANGED <<scraper_vars, program, phase, vector_store, llm_instances>>

\* GET /models of app.py
models_request ==
    /\ program = "app"
    /\ phase = "running"
    /\ request = NO_REQUEST
    /\ request' = [endpoint |-> "/models"]
    /\ response' = get_available_models.response
    /\ raised' = get_available_models.raised
    /\ calls' = get_available_models.calls
    /\ UNCHANGED <<scraper_vars, program, phase, vector_store, llm_instances>>

\* POST /test_model of app.py
test_model_request ==
    /\ program = "app"
    /\ phase = "running"
    /\ request = NO_REQUEST
    /\ \E model_id \in TEST_MODEL_IDS, prompt \in TEST_PROMPTS :
         LET probe == test_model(model_id, prompt, llm_instances, FALSE, NOT_CALLED_INVOKE)
         IN  \E ctor_raises \in outcomes_if(called(probe, "OllamaLLM"), BOOLEAN, FALSE) :
               \E invoke \in outcomes_if(called(probe, "invoke") /\ ~ctor_raises,
                                         INVOKE_OUTCOMES, NOT_CALLED_INVOKE) :
                 LET result == test_model(model_id, prompt, llm_instances, ctor_raises, invoke)
                 IN  /\ request' = [endpoint |-> "/test_model", model_id |-> model_id,
                                    prompt |-> prompt, ctor_raises |-> ctor_raises,
                                    invoke |-> invoke]
                     /\ response' = result.response
                     /\ raised' = result.raised
                     /\ llm_instances' = result.llm_instances
                     /\ calls' = result.calls
    /\ UNCHANGED <<scraper_vars, program, phase, vector_store>>

\* The server sends the returned value to the client; the handler's frame
\* is gone and the next request can be handled.
send_response ==
    /\ phase = "running"
    /\ request # NO_REQUEST
    /\ request' = NO_REQUEST
    /\ response' = NO_RESPONSE
    /\ raised' = FALSE
    /\ calls' = <<>>
    /\ UNCHANGED <<scraper_vars, program, phase, vector_store, llm_instances>>

Next ==
    \/ startup_event
    \/ shutdown_event
    \/ chat_request
    \/ simple_rag_chat_request
    \/ chat_request_blocks
    \/ search_request
    \/ health_request
    \/ models_request
    \/ test_model_request
    \/ send_response

Spec == Init /\ [][Next]_vars

\* ------------------------------------- the relevance gate of spec 4.1
\* app.py and simple_rag.py contain no relevance gate: the definitions of
\* this section follow the specification's text and are used only to state
\* its properties.  The stop words and the meta-question patterns are the
\* ones the specification names or implies; it does not list them in full.

MIN_CONTENT_LENGTH == 50

STOP_WORDS == {"a", "an", "the", "is", "of", "to", "in", "and", "what", "s"}

META_PATTERNS == {"who are you", "who created you"}

WORD_CHARS == "abcdefghijklmnopqrstuvwxyz0123456789_"

\* The word characters, in both letter cases.
WORD_CHAR_SET ==
    {CharAt(WORD_CHARS, i) : i \in 1..Len(WORD_CHARS)}
    \cup {CharAt(ASCII_UPPERCASE, i) : i \in 1..Len(ASCII_UPPERCASE)}

is_word_char(c) == c \in WORD_CHAR_SET

\* The word tokens of text: its maximal runs of word characters, lowercased.
word_tokens(text) ==
    LET t == lower(text)
        n == Len(t)
        starts == {i \in 1..n : is_word_char(CharAt(t, i))
                                /\ (i = 1 \/ ~is_word_char(CharAt(t, i - 1)))}
        end(i) == Min({j \in i..n : j = n \/ ~is_word_char(CharAt(t, j + 1))})
    IN  {SubSeq(t, i, end(i)) : i \in starts}

\* word (lowercase) occurs in text as a whole word, case-insensitively.
whole_word_in(word, text) ==
    LET t == lower(text)
        n == Len(t)
        w == Len(word)
    IN  \E i \in 1..(n - w + 1) :
            /\ SubSeq(t, i, i + w - 1) = word
            /\ (i = 1 \/ ~is_word_char(CharAt(t, i - 1)))
            /\ (i + w - 1 = n \/ ~is_word_char(CharAt(t, i + w)))

\* Step 1: the chunk texts that pass the substantiality filter.
surviving(texts) == SelectSeq(texts, LAMBDA t : Len(strip(t)) >= MIN_CONTENT_LENGTH)

\* Step 2: the question's tokens without the stop words, and how many of
\* them occur in the concatenated surviving text.
question_tokens(question) == word_tokens(question) \ STOP_WORDS

overlap_matches(question, texts) ==
    Cardinality({w \in question_tokens(question) : whole_word_in(w, join(" ", surviving(texts)))})

\* The overlap ratio with the number of word occurrences of the surviving
\* text as its denominator.
overlap_ratio_per_context_word(question, texts) ==
    LET t == join(" ", surviving(texts))
    IN  [matches |-> overlap_matches(question, texts),
         of |-> Cardinality({i \in 1..Len(t) :
                               /\ is_word_char(CharAt(t, i))
                               /\ (i = 1 \/ ~is_word_char(CharAt(t, i - 1)))})]

\* The overlap ratio, matches / of: the fraction of the question's remaining
\* tokens that occur in the concatenated surviving text.
overlap_ratio(question, texts) ==
    [matches |-> overlap_matches(question, texts),
     of |-> Cardinality(question_tokens(question))]

\* ratio >= 0.2, false when no token is left.
lexically_relevant(question, texts) ==
    LET ratio == overlap_ratio(question, texts)
    IN  /\ question_tokens(question) # {}
        /\ 10 * ratio.matches >= 2 * ratio.of

\* Step 3: the question matches a meta-question pattern.
topic_excluded(question) == \E pattern \in META_PATTERNS : contains(lower(question), pattern)

\* Step 4: the gate's decision.
gate_useful(question, texts) ==
    /\ surviving(texts) # <<>>
    /\ lexically_relevant(question, texts)
    /\ ~topic_excluded(question)

\* ------------------------------------------- the functions on their own
\* A second specification, in which one function is called on arguments
\* drawn from bounded sets: request holds the call (the function's name and
\* its arguments) and response the value returned.

\* The calls of the relevance gate: a question and the texts of the chunks.
GATE_CALLS ==
    {[endpoint |-> "relevance_gate", question |-> q, texts |-> t] :
        q \in QUESTIONS,
        t \in SeqsUpTo({d.page_content : d \in DOCUMENTS}, MaxChunks)}

\* Texts without a marker: what a model output has around its marker
\* pairs, and what it has inside them.
OUTSIDE_TEXTS == {"", "Melange. ", "\nArrakis"}
INSIDE_TEXTS == {"", "Recall\nthe lore."}

\* The text outside[1] <think>inside[1]</think> outside[2] ... : Len(inside)
\* well-formed marker pairs that are not nested.
RECURSIVE Marked(_, _)
Marked(outside, inside) ==
    IF inside = <<>> THEN outside[1]
    ELSE outside[1] \o "<think>" \o inside[1] \o "</think>" \o Marked(Tail(outside), Tail(inside))

\* Model outputs whose markers do not pair up.
UNPAIRED_OUTPUTS ==
    {"<think>The spice", " Melange.</think> ", " </think>Melange.<think>\n", "<think>a</think",
     "<think", "</think>", "<THINK>a</THINK> ", "<think>a<think>b",
     "Melange. "}

\* Model outputs whose markers are nested, or interleaved with each other.
NESTED_OUTPUTS ==
    {"<think>a<think>b</think>c</think>d", "<think><think></think></think>",
     "<thi<think></think>nk>secret</think>", "<<think>x</think>think>y</think>"}

\* The calls of process_model_response: the model's output and a model id.
\* outside and inside tell how a text with marker pairs was put together.
PROCESS_CALLS ==
    UNION {{[endpoint |-> "process_model_response", response |-> Marked(outside, inside),
             model_id |-> model_id, outside |-> outside, inside |-> inside] :
               model_id \in {"deepseek-r1", "llama3.2"},
               outside \in [1..(n + 1) -> OUTSIDE_TEXTS],
               inside \in [1..n -> INSIDE_TEXTS]} : n \in 0..MaxPairs}
    \cup {[endpoint |-> "process_model_response", response |-> text, model_id |-> model_id] :
            text \in UNPAIRED_OUTPUTS \cup NESTED_OUTPUTS, model_id \in {"deepseek-r1", "llama3.2"}}

\* Questions and contexts, with and without text that looks like a
\* replacement field.
FIELD_TEXTS ==
    {"What is the spice?", "What is {context}?", "{question}",
     "{model_name} {context} {question}", "{{context}}", "a } b { c", "{0} {} {x.y}", ""}

\* The calls of BASE_PROMPT.format(model_name=..., context=..., question=...).
FORMAT_CALLS ==
    {[endpoint |-> "BASE_PROMPT.format", model_name |-> AVAILABLE_MODELS[DEFAULT_MODEL].name,
      context |-> context, question |-> question] :
        context \in FIELD_TEXTS \cup {NO_CONTEXT}, question \in FIELD_TEXTS}

\* Calls of chat(message) in a process whose vector store is connected and
\* whose llm_instances is empty: the similarity search raises or returns up
\* to MaxSources documents, and an outcome is chosen for each external call
\* the handler makes.
CHAT_MESSAGES ==
    {[text |-> text, use_rag |-> use_rag, model |-> model] :
        text \in {"What is the spice?", "Who is Glauco?"},
        use_rag \in BOOLEAN,
        model \in {"deepseek-r1", None}}

RANKED_OUTCOMES ==
    {[raises |-> TRUE, results |-> <<>>]}
    \cup {[raises |-> FALSE, results |-> r] : r \in SeqsUpTo({DOC_SPICE, DOC_SHORT}, MaxSources)}

CHAT_INVOKES ==
    {[raises |-> TRUE, text |-> ""], [raises |-> FALSE, text |-> "Melange."]}

CHAT_CALLS ==
    UNION {LET probe == chat(message, NEO4J_VECTOR, EMPTY_DICT,
                             NOT_CALLED_SEARCH, FALSE, NOT_CALLED_INVOKE)
           IN  UNION {{[endpoint |-> "chat", message |-> message, search |-> search,
                        ctor_raises |-> ctor_raises, invoke |-> invoke] :
                          search \in outcomes_if(called(probe, "similarity_search_with_score"),
                                                 RANKED_OUTCOMES, NOT_CALLED_SEARCH),
                          invoke \in outcomes_if(called(probe, "invoke") /\ ~ctor_raises,
                                                 CHAT_INVOKES, NOT_CALLED_INVOKE)}
                      : ctor_raises \in outcomes_if(called(probe, "OllamaLLM"), BOOLEAN, FALSE)}
           : message \in CHAT_MESSAGES}

\* Runs of up to MaxCalls calls of get_llm_instance, each with a configured
\* or an unconfigured id; ctor_raises[n] is what OllamaLLM(...) does if the
\* n-th call constructs a client.
LLM_CALLS ==
    UNION {{[endpoint |-> "get_llm_instance", model_ids |-> ids, ctor_raises |-> raises] :
              ids \in [1..n -> {"deepseek-r1", "llama3.2"}],
              raises \in [1..n -> BOOLEAN]}
           : n \in 1..MaxCalls}

FUNCTION_CALLS == GATE_CALLS \cup PROCESS_CALLS \cup FORMAT_CALLS \cup CHAT_CALLS \cup LLM_CALLS

FunctionsInit ==
    /\ program = "functions"
    /\ phase = "called"
    /\ request \in FUNCTION_CALLS
    /\ vector_store = IF request.endpoint = "chat" THEN NEO4J_VECTOR ELSE None
    /\ llm_instances = EMPTY_DICT
    /\ response = NO_RESPONSE
    /\ raised = FALSE
    /\ calls = <<>>
    /\ max_pages = 0
    /\ scraped_urls = {}
    /\ urls_to_scrape = {}
    /\ scraped_data = <<>>

\* The gate of spec 4.1 returns its decision, the overlap ratio it computed
\* and the chunks to surface.
relevance_gate_call ==
    /\ phase = "called"
    /\ request.endpoint = "relevance_gate"
    /\ response' = [useful |-> gate_useful(request.question, request.texts),
                    ratio |-> overlap_ratio(request.question, request.texts),
                    chunks |-> surviving(request.texts)]
    /\ phase' = "returned"
    /\ UNCHANGED <<scraper_vars, program, vector_store, llm_instances, request, raised, calls>>

\* process_model_response(response, model_id) returns.
process_model_response_call ==
    /\ phase = "called"
    /\ request.endpoint = "process_model_response"
    /\ response' = [result |-> process_model_response(request.response, request.model_id)]
    /\ phase' = "returned"
    /\ UNCHANGED <<scraper_vars, program, vector_store, llm_instances, request, raised, calls>>

\* chat, lines 253-258: the prompt is assembled.
format_call ==
    /\ phase = "called"
    /\ request.endpoint = "BASE_PROMPT.format"
    /\ response' = [full_prompt |-> format(BASE_PROMPT_parsed,
                                           [model_name |-> request.model_name,
                                            context |-> request.context,
                                            question |-> request.question])]
    /\ phase' = "returned"
    /\ UNCHANGED <<scraper_vars, program, vector_store, llm_instances, request, raised, calls>>

\* chat(message) of app.py returns.
chat_call ==
    /\ phase = "called"
    /\ request.endpoint = "chat"
    /\ LET result == chat(request.message, vector_store, llm_instances,
                          request.search, request.ctor_raises, request.invoke)
       IN  /\ response' = result.response
           /\ raised' = result.raised
           /\ llm_instances' = result.llm_instances
           /\ calls' = result.calls
    /\ phase' = "returned"
    /\ UNCHANGED <<scraper_vars, program, vector_store, request>>

\* The next call of get_llm_instance of the run is made: response lists,
\* for each call made so far, whether it raised, the client it returned and
\* the external calls it made.
get_llm_instance_call ==
    /\ phase = "called"
    /\ request.endpoint = "get_llm_instance"
    /\ LET returned == IF response = NO_RESPONSE THEN <<>> ELSE response.returned
           n == Len(returned) + 1
           result == get_llm_instance(request.model_ids[n], llm_instances,
                                      request.ctor_raises[n])
       IN  /\ response' = [returned |-> Append(returned, [raised |-> result.raised,
                                                          llm |-> result.llm,
                                                          calls |-> result.calls])]
           /\ llm_instances' = result.llm_instances
           /\ calls' = calls \o result.calls
           /\ phase' = IF n = Len(request.model_ids) THEN "returned" ELSE "called"
    /\ UNCHANGED <<scraper_vars, program, vector_store, request, raised>>

FunctionsNext ==
    \/ get_llm_instance_call
    \/ relevance_gate_call
    \/ process_model_response_call
    \/ format_call
    \/ chat_call

FunctionsSpec == FunctionsInit /\ [][FunctionsNext]_vars

\* ------------------------------------------------- the wiki scraper
\* data_ingestion.py and scrapers/dunewiki_scraper.py: DuneWikiScraper.
\* program is "data_ingestion" or "dunewiki_scraper"; phase is "idle"
\* (constructed, no call of scrape_wiki running) or "scraping" (in the while
\* loop); calls is the bag of the fetches made, session.get(url); response
\* is the metadata file, which each call of scrape_wiki writes anew.

\* list(new_links)[:3] in data_ingestion.py, [:5] in dunewiki_scraper.py.
data_ingestion_LINK_LIMIT == 3
dunewiki_scraper_LINK_LIMIT == 5
LINK_LIMIT == IF program = "data_ingestion"
              THEN data_ingestion_LINK_LIMIT ELSE dunewiki_scraper_LINK_LIMIT

\* Pages of the wiki, from the start_urls of scrape_dune_wiki.
WIKI_URLS ==
    <<"https://dune.fandom.com/wiki/Dune",
      "https://dune.fandom.com/wiki/Paul_Atreides",
      "https://dune.fandom.com/wiki/Arrakis",
      "https://dune.fandom.com/wiki/Spice",
      "https://dune.fandom.com/wiki/House_Atreides",
      "https://dune.fandom.com/wiki/House_Harkonnen",
      "https://dune.fandom.com/wiki/Fremen",
      "https://dune.fandom.com/wiki/Sandworm",
      "https://dune.fandom.com/wiki/Bene_Gesserit">>
URLS == {WIKI_URLS[i] : i \in 1..(LINK_LIMIT + MaxExtraUrls)}

\* The start_urls of a call.
START_URLS == {{WIKI_URLS[1]}, {WIKI_URLS[1], WIKI_URLS[2]}}

\* What the links of the page at url can be: a link to itself and back to
\* the first page (a cycle, and nothing new once both are scraped), or, for
\* the two pages a call can start from, a link to every page of the wiki,
\* itself included.
LINK_SETS(url) ==
    {{url, WIKI_URLS[1]}}
    \cup (IF url \in {WIKI_URLS[1], WIKI_URLS[2]} THEN {URLS} ELSE {})

\* The None that scrape_page returns when the request or the parsing raised.
NO_PAGE == [url |-> None, content |-> "", links |-> {}]

\* The content extract_text_and_structure can give for the page at url, a
\* text with no blank at either end: none, one line, and for the page on
\* the novel two lines, the second one beginning with a blank.
CONTENTS(url) ==
    {"", "Arrakis, the desert planet."}
    \cup (IF url = WIKI_URLS[1] THEN {"Dune\n is a novel"} ELSE {})

\* What scrape_page(url) can return: None, or the page with its content and
\* links.
PAGES(url) ==
    {NO_PAGE}
    \cup {[url |-> url, content |-> content, links |-> links] :
            content \in CONTENTS(url),
            links \in LINK_SETS(url)}

\* text.split('\n')
RECURSIVE split_lines(_)
split_lines(text) ==
    LET i == find(text, "\n", 1)
    IN  IF i = 0 THEN <<text>>
        ELSE <<SubSeq(text, 1, i - 1)>> \o split_lines(SubSeq(text, i + 1, Len(text)))

\* all(c == '=' for c in line)
all_equals(line) == \A i \in 1..Len(line) : CharAt(line, i) = "="

\* lines.index(line), 1-based; 0 stands for the ValueError raised when line
\* is no element of lines.
index(lines, line) ==
    LET hits == {k \in 1..Len(lines) : lines[k] = line}
    IN  IF hits = {} THEN 0 ELSE Min(hits)

\* The lines of html_lines that are not skipped, in order.
html_lines(entries) == SelectSeq(entries, LAMBDA entry : entry # "")

\* text_to_html(text) of data_ingestion.py: a line followed by a line of
\* '=' is a header, a line of '=' is skipped, any other line that is not
\* blank is a paragraph.  "" marks a skipped line.
data_ingestion_text_to_html(text) ==
    LET lines == split_lines(text)
        entry(i) ==
            LET line == strip(lines[i])
            IN  IF line = "" THEN ""
                ELSE IF i + 1 <= Len(lines) /\ strip(lines[i + 1]) # ""
                        /\ all_equals(strip(lines[i + 1]))
                THEN "<h2>" \o line \o "</h2>"
                ELSE IF all_equals(line) THEN ""
                ELSE "<p>" \o line \o "</p>"
    IN  [raised |-> FALSE,
         html |-> join("\n", html_lines([i \in 1..Len(lines) |-> entry(i)]))]

\* text_to_html(text) of dunewiki_scraper.py: the line after a line is
\* looked up with lines.index(line), line being the stripped line: the
\* first line of lines equal to it, and a ValueError when no line of lines
\* is (a line with a blank at either end that has no stripped twin).
dunewiki_scraper_text_to_html(text) ==
    LET lines == split_lines(text)
        missing(i) == strip(lines[i]) # "" /\ index(lines, strip(lines[i])) = 0
        entry(i) ==
            LET line == strip(lines[i])
                at == index(lines, line)
            IN  IF line = "" THEN ""
                ELSE IF Len(lines) > at /\ strip(lines[at + 1]) # ""
                        /\ all_equals(strip(lines[at + 1]))
                THEN "<h2>" \o line \o "</h2>"
                ELSE IF all_equals(line) THEN ""
                ELSE "<p>" \o line \o "</p>"
    IN  IF \E i \in 1..Len(lines) : missing(i)
        THEN [raised |-> TRUE, html |-> None]
        ELSE [raised |-> FALSE,
              html |-> join("\n", html_lines([i \in 1..Len(lines) |-> entry(i)]))]

\* self.text_to_html(text) of the scraper that runs.
text_to_html(text) ==
    IF program = "data_ingestion"
    THEN data_ingestion_text_to_html(text) ELSE dunewiki_scraper_text_to_html(text)

\* urls_to_scrape.pop() keeping the element in the set.
pop_kept(urls) == {[url |-> url, rest |-> urls] : url \in urls}

\* urls_to_scrape.pop(): an arbitrary element is removed and returned.
pop(urls) == {[url |-> url, rest |-> urls \ {url}] : url \in urls}

\* list(links)[:k] without the cut.
take_all(links, k) == {links}

\* list(links)[:k]: k elements of the set, whichever the iteration order
\* puts first; all of them if there are no more than k.
take(links, k) ==
    {some \in SUBSET links :
        Cardinality(some) = IF Cardinality(links) < k THEN Cardinality(links) ELSE k}

\* The instance is constructed: DuneWikiScraper(max_pages=...).
ScraperInit ==
    /\ program \in {"data_ingestion", "dunewiki_scraper"}
    /\ phase = "idle"
    /\ vector_store = None
    /\ llm_instances = EMPTY_DICT
    /\ request = NO_REQUEST
    /\ response = NO_RESPONSE
    /\ raised = FALSE
    /\ calls = EmptyBag
    /\ max_pages \in 0..MaxPages
    /\ scraped_urls = {}
    /\ urls_to_scrape = {}
    /\ scraped_data = <<>>

\* scrape_wiki(start_urls) is called, up to the while loop.
scrape_wiki_call ==
    /\ phase = "idle"
    /\ \E start_urls \in START_URLS :
         /\ request' = [endpoint |-> "scrape_wiki", start_urls |-> start_urls]
         /\ urls_to_scrape' = start_urls
    /\ scraped_data' = <<>>
    /\ raised' = FALSE
    /\ phase' = "scraping"
    /\ UNCHANGED <<program, vector_store, llm_instances, response, calls,
                   max_pages, scraped_urls>>

\* The while condition of scrape_wiki.
loop_continues == urls_to_scrape # {} /\ Len(scraped_data) < max_pages

\* One iteration of the while loop: a url is popped; if it was scraped
\* before the loop continues; otherwise it is recorded in scraped_urls and
\* fetched, a page with content is written to its file and saved, and while
\* fewer than max_pages are saved up to LINK_LIMIT of its links not scraped
\* yet join urls_to_scrape.  An exception of text_to_html is caught nowhere
\* in scrape_wiki: the call ends there, the page is not saved and no
\* metadata is written.
scrape_wiki_iteration ==
    /\ phase = "scraping"
    /\ loop_continues
    /\ \E popped \in pop(urls_to_scrape) :
         IF popped.url \in scraped_urls
         THEN /\ urls_to_scrape' = popped.rest
              /\ UNCHANGED <<scraped_urls, scraped_data, calls, raised, phase>>
         ELSE /\ scraped_urls' = scraped_urls \cup {popped.url}
              /\ calls' = calls (+) SetToBag({Call("get", popped.url, 0)})
              /\ \E page_data \in PAGES(popped.url) :
                   IF page_data # NO_PAGE /\ strip(page_data.content) # ""
                   THEN IF text_to_html(page_data.content).raised
                        THEN /\ urls_to_scrape' = popped.rest
                             /\ raised' = TRUE
                             /\ phase' = "idle"
                             /\ UNCHANGED scraped_data
                        ELSE /\ scraped_data' = Append(scraped_data, page_data)
                             /\ IF Len(scraped_data') < max_pages
                                THEN \E added \in take(page_data.links \ scraped_urls',
                                                        LINK_LIMIT) :
                                       urls_to_scrape' = popped.rest \cup added
                                ELSE urls_to_scrape' = popped.rest
                             /\ UNCHANGED <<raised, phase>>
                   ELSE /\ urls_to_scrape' = popped.rest
                        /\ UNCHANGED <<scraped_data, raised, phase>>
    /\ UNCHANGED <<program, vector_store, llm_instances, request, response, max_pages>>

\* The loop has ended: the metadata is written and scrape_wiki returns.
scrape_wiki_return ==
    /\ phase = "scraping"
    /\ ~loop_continues
    /\ response' = [scraped_count |-> Len(scraped_data), urls_scraped |-> scraped_urls]
    /\ phase' = "idle"
    /\ UNCHANGED <<program, vector_store, llm_instances, request, raised, calls,
                   max_pages, scraped_urls, urls_to_scrape, scraped_data>>

ScraperNext ==
    \/ scrape_wiki_call
    \/ scrape_wiki_iteration
    \/ scrape_wiki_return

ScraperSpec == ScraperInit /\ [][ScraperNext]_vars

\* The interpreter keeps running the loop: every fetch returns or fails
\* (session.get has timeout=10), so an iteration that can be made is made.
ScraperFairSpec ==
    ScraperSpec /\ WF_vars(scrape_wiki_iteration) /\ WF_vars(scrape_wiki_return)

\* ------------------------------------------------------ observations
\* What the properties below read from the state of a handled request.

\* A /chat request has been handled.
IsChat == request.endpoint = "/chat" /\ phase = "running"
IsAppChat == IsChat /\ program = "app"

Question == request.message.text

\* The texts of the chunks the similarity search returned to the handler.
RetrievedTexts ==
    [i \in 1..Len(request.search.results) |-> request.search.results[i].page_content]

\* The prompts sent to the model by the handler, in order.
PromptsSent ==
    LET sent == SelectSeq(calls, LAMBDA c : c.op = "invoke")
    IN  [i \in 1..Len(sent) |-> sent[i].arg]

CallCount(op) == Cardinality({n \in 1..Len(calls) : calls[n].op = op})

\* text contains g-l-a-u-c-o as a substring, each letter in either case.
HasTriggerWord(text) ==
    \E i \in 1..(Len(text) - 5) :
        \A k \in 1..6 : CharAt(text, i + k - 1) \in {CharAt("glauco", k), CharAt("GLAUCO", k)}

\* A step of the handler failed and nothing recovered it: the creation of
\* the LLM instance or the model invocation raised.
Unrecovered == request.ctor_raises \/ request.invoke.raises

\* The prompt of app.py for a question, assembled with the no-context text.
NoContextPrompt(question) ==
    format(BASE_PROMPT_parsed,
           [model_name |-> "DeepSeek R1", context |-> NO_CONTEXT, question |-> question])

\* --------------------------------------------------------- properties

\* C1: a /chat request whose text contains the trigger word "glauco" as a
\* substring, in any letter case, is answered with exactly "Glauco." and the
\* handler makes no external call for it: no similarity search, no LLM
\* instance creation, no model invocation.
C1_TriggerWordShortCircuit ==
    (IsChat /\ HasTriggerWord(Question))
        => (~raised /\ response.reply = "Glauco." /\ calls = <<>>)

\* C1 happens: an upper-case trigger word inside a longer text, sent to
\* app.py with RAG on and the vector store connected.
C1_Witness ==
    /\ IsAppChat
    /\ Question = "xxGLAUCOxx"
    /\ request.message.use_rag
    /\ vector_store = NEO4J_VECTOR
    /\ response.reply = "Glauco."

\* C2: POST /chat never lets an exception escape, and when a failure is not
\* recovered the response is the fixed apology with rag_used = false and
\* sources_used = 0.
C2_ApologyEnvelope ==
    IsChat =>
        /\ ~raised
        /\ Unrecovered =>
             /\ response.reply = "I encountered an error processing your question. Please try again."
             /\ "rag_used" \in DOMAIN response /\ response.rag_used = FALSE
             /\ "sources_used" \in DOMAIN response /\ response.sources_used = 0

\* C3: when the model invocation fails, the handler invokes the model
\* exactly once more, with the prompt assembled with empty context (so at
\* most two invocations per request).
C3_RetryOnceWithEmptyContext ==
    (IsAppChat /\ request.invoke.raises)
        => /\ CallCount("invoke") = 2
           /\ PromptsSent[2] = NoContextPrompt(Question)

\* The fields of the response envelope (spec 3 and app.py lines 271-305).
ENVELOPE_FIELDS ==
    {"reply", "model_used", "model_name", "rag_used", "sources_used", "sources", "top_sources"}

\* C4: a response carries a field that flags an error exactly when it is
\* the fixed apology.
C4_ErrorFlag ==
    IsChat =>
        ((response.reply = "I encountered an error processing your question. Please try again.")
            <=> (DOMAIN response \ ENVELOPE_FIELDS # {}))

\* C5: with RAG requested and the vector store uninitialized or its search
\* raising, app.py's /chat goes on without context: no exception escapes,
\* the model is invoked once with the no-context prompt, the reply is the
\* post-processed model output, rag_used = false and sources_used = 0, and
\* the response is the one given when the search returns zero chunks.
C5_RetrievalUnavailable ==
    (/\ IsAppChat
     /\ ~HasTriggerWord(Question)
     /\ request.message.use_rag
     /\ (vector_store = None \/ request.search.raises)
     /\ ~Unrecovered)
        => /\ ~raised
           /\ (vector_store = None => CallCount("similarity_search_with_score") = 0)
           /\ PromptsSent = <<NoContextPrompt(Question)>>
           /\ response.reply = strip(re_sub_think(request.invoke.text))
           /\ response.rag_used = FALSE
           /\ response.sources_used = 0
           /\ "sources" \notin DOMAIN response
           /\ response = chat(request.message, NEO4J_VECTOR, llm_instances,
                              [raises |-> FALSE, results |-> <<>>], FALSE,
                              request.invoke).response

\* C5 happens: the store is connected, the search raises and the model's
\* answer is returned.
C5_Witness ==
    /\ IsAppChat
    /\ Question = "What is the spice?"
    /\ vector_store = NEO4J_VECTOR
    /\ request.search.raises
    /\ response.reply = "The spice is melange."
    /\ response.sources_used = 0

\* No text of a retrieved chunk is in a prompt sent to the model.
ContextKeptOut ==
    \A n \in 1..Len(PromptsSent), i \in 1..Len(RetrievedTexts) :
        ~contains(PromptsSent[n], RetrievedTexts[i])

\* The response reports that no context was used.
ReportsNoSources ==
    /\ "sources_used" \in DOMAIN response => response.sources_used = 0
    /\ "rag_used" \in DOMAIN response => response.rag_used = FALSE

\* C6: when the relevance gate's decision for the question and the retrieved
\* chunks is false, the prompt holds no retrieved chunk text and the
\* response reports sources_used = 0 and rag_used = false, also when the
\* retrieval returned chunks.
C6_GateFalseKeepsContextOut ==
    (IsChat /\ ~HasTriggerWord(Question) /\ ~gate_useful(Question, RetrievedTexts))
        => (ContextKeptOut /\ ReportsNoSources)

\* C7: when every retrieved chunk's trimmed text is shorter than the
\* minimum content length, no chunk text is in the prompt and sources_used
\* is 0.
C7_ShortChunksNotUsed ==
    (/\ IsAppChat
     /\ ~HasTriggerWord(Question)
     /\ RetrievedTexts # <<>>
     /\ \A i \in 1..Len(RetrievedTexts) : Len(strip(RetrievedTexts[i])) < MIN_CONTENT_LENGTH)
        => (ContextKeptOut /\ response.sources_used = 0)

\* C8: for a question that matches a meta-question pattern the retrieved
\* context is kept out of the prompt, whatever the substantiality and the
\* lexical overlap of the chunks.
C8_MetaQuestionKeepsContextOut ==
    (IsAppChat /\ ~HasTriggerWord(Question) /\ topic_excluded(Question))
        => (ContextKeptOut /\ ReportsNoSources)

\* C9: the retrieved context is used only if at least 0.2 of the question's
\* non-stop-word tokens occur as whole words in the surviving chunk text; a
\* question with no token left never has its context used.
C9_ContextUsedOnlyIfOverlap ==
    (IsAppChat /\ ~HasTriggerWord(Question) /\ ~Unrecovered /\ response.rag_used)
        => lexically_relevant(Question, RetrievedTexts)

\* C10: when a retrieved chunk passes the substantiality filter, the lexical
\* overlap is at least 0.2 and the question matches no meta-question
\* pattern, and the model answers, the prompt sent to the model contains the
\* text of every surviving chunk and the response has sources_used > 0 and
\* rag_used = true.
C10_RelevantContextUsed ==
    (/\ IsAppChat
     /\ ~HasTriggerWord(Question)
     /\ ~Unrecovered
     /\ gate_useful(Question, RetrievedTexts))
        => /\ Len(PromptsSent) = 1
           /\ \A i \in 1..Len(surviving(RetrievedTexts)) :
                  contains(PromptsSent[1], surviving(RetrievedTexts)[i])
           /\ response.sources_used > 0
           /\ response.rag_used = TRUE

\* C10 happens: "What is the spice?" with the chunk about the spice.
C10_Witness ==
    /\ IsAppChat
    /\ Question = "What is the spice?"
    /\ request.search.results = <<DOC_SPICE>>
    /\ gate_useful(Question, RetrievedTexts)
    /\ contains(PromptsSent[1], "The spice melange is found only on the desert planet Arrakis.")
    /\ response.sources_used = 1
    /\ response.rag_used

\* The chunk texts with word added to the i-th one as a further whole word.
AddWord(texts, i, word) == [texts EXCEPT ![i] = @ \o " " \o word]

\* The ratio r1 is at most the ratio r2.
RatioAtMost(r1, r2) == r1.matches * r2.of <= r2.matches * r1.of

\* The relevance gate has returned.
GateReturned == request.endpoint = "relevance_gate" /\ phase = "returned"

\* C11: the lexical overlap is monotonic in the context: adding one of the
\* question's non-stop-word tokens to the text of a retrieved chunk, as a
\* further whole word, never makes the overlap ratio of the question and the
\* chunks smaller.
C11_OverlapMonotonic ==
    GateReturned =>
        \A i \in 1..Len(request.texts), word \in question_tokens(request.question) :
            RatioAtMost(response.ratio,
                        overlap_ratio(request.question, AddWord(request.texts, i, word)))

\* C11 happens: "spice" added to the chunk about the sandworms raises the
\* ratio of "What is the spice?" from 0 to 1.
C11_Witness ==
    /\ GateReturned
    /\ request.question = "What is the spice?"
    /\ request.texts = <<DOC_SANDWORMS.page_content>>
    /\ response.ratio = [matches |-> 0, of |-> 1]
    /\ overlap_ratio(request.question, AddWord(request.texts, 1, "spice")) = [matches |-> 1, of |-> 1]

\* The chunk texts listed in the "sources" of the response, in order.
SourceTexts ==
    IF "sources" \in DOMAIN response
    THEN [i \in 1..Len(response.sources) |-> response.sources[i].content]
    ELSE <<>>

\* C12: the chunks surfaced by a request the model answers are exactly the
\* retrieved chunks whose own trimmed text has at least the minimum content
\* length: the response lists those in its sources, and a retrieved text is
\* in the prompt if and only if it is one of them.
C12_SubstantialChunksOnly ==
    (IsAppChat /\ ~HasTriggerWord(Question) /\ ~Unrecovered)
        => /\ SourceTexts = surviving(RetrievedTexts)
           /\ \A i \in 1..Len(RetrievedTexts) :
                  contains(PromptsSent[1], RetrievedTexts[i])
                      <=> Len(strip(RetrievedTexts[i])) >= MIN_CONTENT_LENGTH

\* process_model_response has returned.
ProcessReturned == request.endpoint = "process_model_response" /\ phase = "returned"

\* C13: post-processing a text with N >= 0 well-formed marker pairs that
\* are not nested removes exactly the N spans, markers included and across
\* newlines: the result is the text before, between and after the pairs, in
\* order, with leading and trailing whitespace trimmed.  With N = 0 the text
\* is returned unchanged except for the trimming.
C13_PairsRemoved ==
    (ProcessReturned /\ "outside" \in DOMAIN request)
        => response.result = strip(join("", request.outside))

\* C13 happens: two pairs, one of them over a newline, with text before,
\* between and after them.
C13_Witness ==
    /\ ProcessReturned
    /\ request.response = "Melange. <think>Recall\nthe lore.</think>\nArrakis<think></think>Melange. "
    /\ response.result = "Melange. \nArrakisMelange."

\* text has a start marker with an end marker after it.
HasPair(text) ==
    \E i \in 1..Len(text), j \in 1..Len(text) :
        /\ i + 7 <= j
        /\ SubSeq(text, i, i + 6) = "<think>"
        /\ j + 7 <= Len(text)
        /\ SubSeq(text, j, j + 7) = "</think>"

\* C14: post-processing a text in which no start marker has an end marker
\* after it (a start marker alone, an end marker alone, an end marker before
\* the only start marker, no marker) removes nothing: the result is the text
\* with leading and trailing whitespace trimmed.
C14_UnpairedLeftAlone ==
    (ProcessReturned /\ ~HasPair(request.response))
        => response.result = strip(request.response)

\* C14 happens: an end marker before the only start marker.
C14_Witness ==
    /\ ProcessReturned
    /\ request.response = " </think>Melange.<think>\n"
    /\ response.result = "</think>Melange.<think>"

\* The place of an external call in the order of the stages: the search is
\* RETRIEVE; the creation of the LLM instance and the invocation are
\* INVOKE_MODEL.
StageOf(op) ==
    CASE op = "similarity_search_with_score" -> 1
      [] op = "OllamaLLM" -> 2
      [] op = "invoke" -> 3

\* C15: a /chat request goes through its stages in order.  A question with
\* the trigger word is answered at once, with no external call.  Otherwise
\* the external calls are made in the order search, LLM instance, model
\* invocation, each at most once (RETRIEVE before INVOKE_MODEL, the prompt
\* assembled before the model is invoked with it); the request passes
\* through GATE between RETRIEVE and ASSEMBLE, so that the prompt sent holds
\* the question, and the text of every surviving chunk when the gate's
\* decision is true and of no retrieved chunk when it is false; and the
\* reply returned is always the model's output, post-processed.
C15_StageOrder ==
    IsAppChat =>
        IF HasTriggerWord(Question)
        THEN calls = <<>> /\ response.reply = "Glauco."
        ELSE /\ \A a \in 1..Len(calls), b \in 1..Len(calls) :
                    a < b => StageOf(calls[a].op) < StageOf(calls[b].op)
             /\ CallCount("similarity_search_with_score") = 1
                    <=> (request.message.use_rag /\ vector_store # None)
             /\ \A n \in 1..Len(PromptsSent) :
                    /\ contains(PromptsSent[n], "Question: " \o Question \o "\n\nAnswer based on")
                    /\ IF gate_useful(Question, RetrievedTexts)
                       THEN \A i \in 1..Len(surviving(RetrievedTexts)) :
                                contains(PromptsSent[n], surviving(RetrievedTexts)[i])
                       ELSE \A i \in 1..Len(RetrievedTexts) :
                                ~contains(PromptsSent[n], RetrievedTexts[i])
             /\ calls # <<>> /\ calls[Len(calls)].op = "invoke"
             /\ response.reply = strip(re_sub_think(request.invoke.text))

\* The step is the handling of a request by one of the handlers.
HandlerStep == request = NO_REQUEST /\ request' # NO_REQUEST

\* The step keeps the vector-store handle and every LLM client of
\* llm_instances, and creates no client for an id that has one.
HandlesKept ==
    /\ vector_store' = vector_store
    /\ \A id \in DOMAIN llm_instances :
           id \in DOMAIN llm_instances' /\ llm_instances'[id] = llm_instances[id]
    /\ \A n \in 1..Len(calls') :
           calls'[n].op = "OllamaLLM" => calls'[n].arg \notin DOMAIN llm_instances

\* C16: the handling of a request writes no process-wide state other than
\* adding a client for a configured model to llm_instances: it keeps the
\* vector-store handle, keeps every client already in llm_instances and does
\* not create a client again.  The handles change only at startup and at
\* shutdown.
C16_HandlesChangeOnlyAtStartupAndShutdown ==
    [][(HandlerStep =>
            /\ HandlesKept
            /\ DOMAIN llm_instances' \subseteq DOMAIN llm_instances \cup DOMAIN AVAILABLE_MODELS)
       /\ ((vector_store' # vector_store \/ ~(DOMAIN llm_instances \subseteq DOMAIN llm_instances'))
              => (phase = "loaded" \/ phase' = "stopped"))]_vars

\* C16 happens: a /chat request is answered by the model through the client
\* made by an earlier request; no client is created for it.
C16_Witness ==
    /\ IsAppChat
    /\ vector_store = NEO4J_VECTOR
    /\ llm_instances = [m \in {"deepseek-r1"} |-> "deepseek-r1"]
    /\ CallCount("OllamaLLM") = 0
    /\ CallCount("invoke") = 1
    /\ response.reply = "Melange."

\* C17: a /chat request always gets its response, also when the similarity
\* search or the model invocation does not return: the wait of a request
\* that has no response yet is bounded by a timeout, so a step that ends it
\* is possible.
C17_ChatAlwaysResponds ==
    (request.endpoint = "/chat" /\ response = NO_RESPONSE) => ENABLED Next

\* A GET /search request has been handled.
IsSearch == request.endpoint = "/search" /\ phase = "running"

\* The response of /search lists every chunk the search returned, in order.
SearchListsEveryChunk ==
    /\ "error" \notin DOMAIN response
    /\ response.results_count = Len(request.search.results)
    /\ Len(response.results) = Len(request.search.results)
    /\ \A i \in 1..Len(request.search.results) :
           /\ Len(request.search.results[i].page_content) <= 200
                 => response.results[i].text = request.search.results[i].page_content
           /\ response.results[i].score = request.search.results[i].score

\* C18: GET /search makes at most one external call, the similarity search
\* for the query with k = limit (exactly one when the vector store is
\* connected), and never creates or invokes an LLM; it returns one result
\* per retrieved chunk, in order and unfiltered, with results_count their
\* number; a search that raises gives results_count = 0 and no exception;
\* the step leaves llm_instances and the vector-store handle unchanged.
C18_SearchBypassesGateAndModel ==
    [][(request = NO_REQUEST /\ request'.endpoint = "/search")
          => /\ llm_instances' = llm_instances
             /\ vector_store' = vector_store
             /\ ~raised'
             /\ calls' = IF vector_store = None THEN <<>>
                         ELSE <<Call("similarity_search_with_score",
                                     request'.query, request'.limit)>>
             /\ SearchListsEveryChunk'
             /\ request'.search.raises => response'.results_count = 0]_vars

\* C18 happens: the search returns a short chunk and a long one, and both
\* are listed.
C18_Witness ==
    /\ IsSearch
    /\ request.limit = 10
    /\ request.search.results = <<DOC_SHORT, DOC_SPICE>>
    /\ response.results_count = 2
    /\ response.results[1].text = "  Arrakis.  "
    /\ response.results[2].source = "dune.txt"
    /\ calls = <<Call("similarity_search_with_score", request.query, 10)>>

\* C20: a /chat request with use_rag = false makes no similarity search,
\* whatever the state of the vector store; every prompt sent for it is the
\* no-context prompt; its response has rag_used = false, sources_used = 0
\* and no list of sources.
C20_NoRagNoRetrieval ==
    (IsAppChat /\ ~request.message.use_rag)
        => /\ CallCount("similarity_search_with_score") = 0
           /\ \A n \in 1..Len(PromptsSent) : PromptsSent[n] = NoContextPrompt(Question)
           /\ response.rag_used = FALSE
           /\ response.sources_used = 0
           /\ "sources" \notin DOMAIN response
           /\ "top_sources" \notin DOMAIN response

\* C20 happens: the vector store is connected, RAG is off and the model
\* answers the no-context prompt.
C20_Witness ==
    /\ IsAppChat
    /\ ~request.message.use_rag
    /\ vector_store = NEO4J_VECTOR
    /\ Question = "What is the spice?"
    /\ PromptsSent = <<NoContextPrompt(Question)>>
    /\ response.reply = "Melange."
    /\ response.rag_used = FALSE

\* The prompt has been assembled.
FormatReturned == request.endpoint = "BASE_PROMPT.format" /\ phase = "returned"

\* The text of BASE_PROMPT from position from up to the placeholder before
\* position to (all of the rest if to = 0).
TemplateText(from, to) == SubSeq(BASE_PROMPT, from, IF to = 0 THEN Len(BASE_PROMPT) ELSE to - 1)

\* C19: the assembled prompt is the template with each of its three
\* placeholders, which occur once each, replaced by the literal value: the
\* model name, the context and the question are in it verbatim, text of a
\* value that looks like a placeholder ("{context}", "{question}") is left as
\* it is, and the assembly does not fail.
C19_LiteralSubstitution ==
    FormatReturned =>
        LET m == find(BASE_PROMPT, "{model_name}", 1)
            c == find(BASE_PROMPT, "{context}", 1)
            q == find(BASE_PROMPT, "{question}", 1)
        IN  /\ 0 < m /\ m < c /\ c < q
            /\ find(BASE_PROMPT, "{model_name}", m + 1) = 0
            /\ find(BASE_PROMPT, "{context}", c + 1) = 0
            /\ find(BASE_PROMPT, "{question}", q + 1) = 0
            /\ ~raised
            /\ response.full_prompt =
                   TemplateText(1, m) \o request.model_name
                   \o TemplateText(m + Len("{model_name}"), c) \o request.context
                   \o TemplateText(c + Len("{context}"), q) \o request.question
                   \o TemplateText(q + Len("{question}"), 0)

\* C19 happens: the question holds "{context}" and the context holds
\* "{question}"; both are in the prompt as they were given.
C19_Witness ==
    /\ FormatReturned
    /\ request.question = "What is {context}?"
    /\ request.context = "{question}"
    /\ contains(response.full_prompt, "CONTEXT:\n{question}\n\nQuestion: What is {context}?\n\nAnswer")

\* A GET /health request has been handled.
IsHealth == request.endpoint = "/health" /\ phase = "running"

\* What holds of the handles in a state of the process: the handle is unset
\* or the store made at startup; before startup and after shutdown it is
\* unset and llm_instances is empty; while it is unset /chat makes no search
\* and reports no sources, and /health is unhealthy.
LifecycleState ==
    /\ vector_store \in {None, NEO4J_VECTOR}
    /\ phase \in {"loaded", "stopped"} => (vector_store = None /\ llm_instances = EMPTY_DICT)
    /\ (IsAppChat /\ vector_store = None)
          => (CallCount("similarity_search_with_score") = 0 /\ ReportsNoSources)
    /\ (IsHealth /\ vector_store = None) => response.status = "unhealthy"

\* C21: the vector-store handle and llm_instances follow the lifecycle of
\* the process.  The handle is set only by the startup step and stays as
\* that step left it until shutdown (unset if the initialization failed:
\* /chat then runs without context and /health is unhealthy); after
\* shutdown the handle is unset and llm_instances is empty.
C21_HandlesFollowLifecycle ==
    [][/\ LifecycleState'
       /\ (vector_store' # vector_store /\ vector_store' # None)
             => (phase = "loaded" /\ phase' = "running")
       /\ (phase = "running" /\ phase' # "stopped") => vector_store' = vector_store
       /\ phase' = "stopped" => (vector_store' = None /\ llm_instances' = EMPTY_DICT)]_vars

\* C21 happens: the initialization failed at startup, the handle is unset
\* and a /chat request with RAG on is answered by the model without context.
C21_Witness ==
    /\ IsAppChat
    /\ vector_store = None
    /\ request.message.use_rag
    /\ response.reply = "Melange."
    /\ response.sources_used = 0

\* C22: GET /health never raises; its status is "unhealthy" exactly when
\* the vector store is uninitialized or the test search raises, and
\* "healthy" otherwise; it makes no external call but the test search (none
\* when the store is uninitialized), so creates and invokes no LLM; the step
\* changes neither the handle nor llm_instances.
C22_HealthReportsBackend ==
    [][(request = NO_REQUEST /\ request'.endpoint = "/health")
          => /\ ~raised'
             /\ vector_store' = vector_store
             /\ llm_instances' = llm_instances
             /\ response'.status \in {"healthy", "unhealthy"}
             /\ (response'.status = "unhealthy")
                   <=> (vector_store = None \/ request'.search.raises)
             /\ calls' = IF vector_store = None THEN <<>>
                         ELSE <<Call("similarity_search", "test", 1)>>]_vars

\* C22 happens: the store is connected and the test search raises.
C22_Witness ==
    /\ IsHealth
    /\ vector_store = NEO4J_VECTOR
    /\ request.search.raises
    /\ response.status = "unhealthy"
    /\ response.error = "connection refused"

\* A call of chat has returned.
ChatReturned == request.endpoint = "chat" /\ phase = "returned"

\* The "top_sources" list of the response; a response without the key
\* lists no top source.
TopSources == IF "top_sources" \in DOMAIN response THEN response.top_sources ELSE <<>>

\* C23: every /chat response of app.py (success, trigger word, apology) is
\* self-consistent: rag_used is true exactly when sources_used > 0;
\* "sources" is present exactly when rag_used is true, and then has
\* sources_used entries whose ids are 1..sources_used and whose contents
\* are the retrieved documents in the order of the search; top_sources has
\* min(3, sources_used) entries (the key is present exactly when "sources" is).
C23_EnvelopeSelfConsistent ==
    ChatReturned =>
        /\ ~raised
        /\ response.rag_used <=> response.sources_used > 0
        /\ ("sources" \in DOMAIN response) <=> response.rag_used
        /\ ("top_sources" \in DOMAIN response) <=> response.rag_used
        /\ response.rag_used =>
              /\ Len(response.sources) = response.sources_used
              /\ response.sources_used = Len(request.search.results)
              /\ \A i \in 1..response.sources_used :
                    /\ response.sources[i].id = i
                    /\ response.sources[i].content = request.search.results[i].page_content
        /\ Len(TopSources) = Min({3, response.sources_used})

\* C23 happens: four documents were retrieved, all four are listed as
\* sources and three as top sources.
C23_Witness ==
    /\ ChatReturned
    /\ response.sources_used = 4
    /\ Len(response.sources) = 4
    /\ response.sources[4].id = 4
    /\ Len(response.top_sources) = 3

\* C24: the model_used field of every /chat response of app.py is the id of
\* a configured model, a key of AVAILABLE_MODELS, on the success path, the
\* trigger-word path and the apology path.
C24_ModelUsedIsConfigured ==
    IsAppChat => response.model_used \in DOMAIN AVAILABLE_MODELS

\* The calls of a run of get_llm_instance that constructed a client.
Constructions ==
    {n \in 1..Len(response.returned) :
        response.returned[n].calls # <<>> /\ ~response.returned[n].raised}

\* C25: in any run of calls of get_llm_instance, with configured and
\* unconfigured ids, at most one LLM client is constructed for the one
\* configured id (a cached client is never replaced), and the keys of
\* llm_instances are configured ids.
C25_OneClientPerModel ==
    (request.endpoint = "get_llm_instance" /\ response # NO_RESPONSE) =>
        /\ Cardinality(Constructions) <= 1
        /\ DOMAIN llm_instances \subseteq DOMAIN AVAILABLE_MODELS

\* C26: process_model_response is idempotent: applied to its own output it
\* returns that output unchanged, and the output holds no complete
\* <think>...</think> span, whatever the input, nested and interleaved
\* markers included.
C26_PostProcessingIdempotent ==
    ProcessReturned =>
        /\ process_model_response(response.result, request.model_id) = response.result
        /\ ~HasPair(response.result)

\* What chat returns for the request in a process that has served no
\* request before: the same message, the same vector store and the same
\* returns of the collaborators, with llm_instances empty.
AloneResult ==
    chat(request.message, vector_store, EMPTY_DICT,
         request.search, request.ctor_raises, request.invoke)

\* The invocations of the model among calls.
Invocations(log) == SelectSeq(log, LAMBDA call : call.op = "invoke")

\* C27: the response to a /chat request of app.py is determined by its own
\* message and by what the retrieval and the model return for it: after
\* any sequence of other /chat, /search, /health and /test_model requests,
\* the response and the prompt sent to the model are those of the same
\* request served alone, the model reported is chosen by the request's own
\* message, and every source listed is a document its own search returned.
C27_RequestsIsolated ==
    IsAppChat =>
        /\ response = AloneResult.response
        /\ Invocations(calls) = Invocations(AloneResult.calls)
        /\ response.model_used \in {request.message.model, DEFAULT_MODEL}
        /\ "sources" \in DOMAIN response =>
              \A i \in 1..Len(response.sources) :
                  response.sources[i].content = request.search.results[i].page_content

\* C27 happens: a request is served by the client an earlier request
\* created, with a prompt and sources of its own.
C27_Witness ==
    /\ IsAppChat
    /\ CallCount("OllamaLLM") = 0
    /\ CallCount("invoke") = 1
    /\ request.message.text = "What is the spice?"
    /\ response.sources_used = 2
    /\ response.reply = "The spice is melange."

\* The urls fetched so far by the scraper.
Fetched == {call.arg : call \in BagToSet(calls)}

\* What holds of a scraper in every state: no url was fetched twice, every
\* url fetched is in scraped_urls, no more than max_pages pages are saved,
\* and the scraped_count of the metadata file is at most the number of its
\* urls_scraped.
ScraperState ==
    /\ \A call \in BagToSet(calls) : CopiesIn(call, calls) = 1
    /\ Fetched \subseteq scraped_urls
    /\ Len(scraped_data) <= max_pages
    /\ response # NO_RESPONSE => response.scraped_count <= Cardinality(response.urls_scraped)

\* The urls an iteration added to urls_to_scrape.
AddedUrls == urls_to_scrape' \ urls_to_scrape

\* C28: scrape_wiki fetches no url more than once per scraper (the url is
\* added to scraped_urls before it is fetched), saves no more than
\* max_pages pages, adds to urls_to_scrape only when a page is saved, and
\* then at most LINK_LIMIT urls (3 in data_ingestion.py, 5 in
\* dunewiki_scraper.py), none of them scraped yet; and the scraped_count
\* it reports is at most the number of the urls_scraped it reports.
C28_ScrapeBounded ==
    [][/\ ScraperState'
       /\ \A call \in BagToSet(calls') :
             CopiesIn(call, calls') > CopiesIn(call, calls) => call.arg \notin scraped_urls
       /\ (phase = "scraping" /\ AddedUrls # {})
             => /\ Len(scraped_data') = Len(scraped_data) + 1
                /\ Cardinality(AddedUrls) <= LINK_LIMIT
                /\ AddedUrls \cap scraped_urls' = {}]_vars

\* C28 happens: a scraper of data_ingestion.py has saved a page linking to
\* every page of the wiki, four of them not scraped yet, and three of
\* these have joined urls_to_scrape.
C28_Witness ==
    /\ program = "data_ingestion"
    /\ phase = "scraping"
    /\ Len(scraped_data) = 1
    /\ scraped_data[1].links = URLS
    /\ Cardinality(scraped_data[1].links \ scraped_urls) > 3
    /\ Cardinality(urls_to_scrape) = 3

\* What is left for the loop of scrape_wiki to do: the urls to pop, and for
\* each page that may still be saved the links it may add.
Remaining == Cardinality(urls_to_scrape) + LINK_LIMIT * (max_pages - Len(scraped_data))

\* C29: scrape_wiki terminates, for every max_pages and every link graph,
\* cyclic ones included, provided each fetch returns or fails.  Every
\* iteration of the loop leaves less to do (a page that failed or is empty
\* adds no link); once max_pages pages are saved or urls_to_scrape is empty
\* the loop ends, and a call that returns has ended so; and every call
\* ends, by returning or with the exception that escaped it.
C29_ScrapeTerminates ==
    /\ [][(phase = "scraping" /\ phase' = "scraping")
             => (Remaining' < Remaining /\ Remaining' >= 0)]_vars
    /\ [][(phase = "scraping" /\ (Len(scraped_data) = max_pages \/ urls_to_scrape = {}))
             => (phase' = "idle" /\ ~raised')]_vars
    /\ [][(phase = "scraping" /\ phase' = "idle" /\ ~raised')
             => (Len(scraped_data) = max_pages \/ urls_to_scrape = {})]_vars
    /\ (phase = "scraping") ~> (phase = "idle")

\* C29 happens: a call has returned with max_pages pages saved, the last of
\* them linking back to pages scraped before, and urls left to scrape.
C29_Witness ==
    /\ phase = "idle"
    /\ ~raised
    /\ response # NO_RESPONSE
    /\ max_pages = 2
    /\ response.scraped_count = max_pages
    /\ scraped_data[2].links = {scraped_data[2].url, WIKI_URLS[1]}
    /\ urls_to_scrape # {}

====
